---- MODULE Spec2Model ----
(***************************************************************************)
(* The pointer-wrapping helpers of node-sdl (src/helpers.cc): five units   *)
(* (Surface, Rect, PixelFormat, Joystick, Font), each with a lazily made   *)
(* object template, a Wrap function boxing a native pointer into internal  *)
(* field 0 of a new object, an Unwrap function, and, for the first three,  *)
(* property getters that read one struct field through the pointer; and    *)
(* the SDL error formatting helpers.  The native library is the            *)
(* environment: it rewrites structs, releases objects and sets its error   *)
(* text between the calls of the layer.                                    *)
(***************************************************************************)
EXTENDS Integers, Sequences, FiniteSets, Bags, TLC

(* ---------------------------- bounds ----------------------------------- *)

\* wrapper objects the host heap may hold
MaxWrappers == 3
\* steps the native library takes on its own (writes, frees, error changes)
MaxNativeSteps == 1

(* ------------------------ native address space ------------------------- *)

NULL == "NULL"

SurfaceObjs == {"S1"}
RectObjs == {"R1"}
FormatObjs == {"F1", "F2"}
JoystickObjs == {"J1"}
FontObjs == {"T1"}

\* &surface->clip_rect : the rectangle embedded in the surface struct
ClipRectOf(surface) ==
  surface \o ".clip_rect"

SurfacePtrs == SurfaceObjs \cup {NULL}
RectPtrs == RectObjs \cup {ClipRectOf(s) : s \in SurfaceObjs} \cup {NULL}
FormatPtrs == FormatObjs \cup {NULL}
JoystickPtrs == JoystickObjs \cup {NULL}
FontPtrs == FontObjs \cup {NULL}

\* the separately allocated native objects
Allocations == SurfaceObjs \cup RectObjs \cup FormatObjs \cup JoystickObjs \cup FontObjs

\* the allocation an address lies in
Owner(p) ==
  IF \E s \in SurfaceObjs : p = ClipRectOf(s)
    THEN CHOOSE s \in SurfaceObjs : p = ClipRectOf(s)
    ELSE p

\* the values a numeric struct field is sampled from
Values == 0..3

\* SDL_Rect contents the library is seen to write
InitRect == [x |-> 0, y |-> 1, w |-> 2, h |-> 3]
RectStructs == {InitRect, [x |-> 1, y |-> 2, w |-> 3, h |-> 0]}

\* SDL_PixelFormat contents
InitFormat == [BitsPerPixel |-> 0, BytesPerPixel |-> 1, colorkey |-> 2, alpha |-> 3]
FormatStructs == {InitFormat,
                  [BitsPerPixel |-> 1, BytesPerPixel |-> 2, colorkey |-> 3, alpha |-> 0]}

\* SDL_Surface contents: as created, redrawn at another size and clip, and
\* given another pixel format
InitSurface == [flags |-> 0, format |-> "F1", w |-> 1, h |-> 2, pitch |-> 3,
                clip_rect |-> InitRect]
SurfaceStructs == {InitSurface,
                   [flags |-> 1, format |-> "F1", w |-> 2, h |-> 3, pitch |-> 0,
                    clip_rect |-> [x |-> 1, y |-> 2, w |-> 3, h |-> 0]],
                   [flags |-> 0, format |-> "F2", w |-> 1, h |-> 2, pitch |-> 3,
                    clip_rect |-> InitRect]}

\* texts SDL_GetError may return, and labels callers pass
ErrorTexts == {"", "No available video device"}
Labels == {"SDL_Init", "TTF_OpenFont"}

(* ------------------------------ state ---------------------------------- *)

VARIABLES
  surface_template_,      \* static Persistent<ObjectTemplate>, one per unit
  rect_template_,
  pixelformat_template_,
  joystick_template_,
  font_template_,
  made,                   \* per unit, the ObjectTemplate::New() calls so far
  wrappers,               \* the host heap: a bag of wrapper objects
  mem,                    \* native memory: address -> struct
  freed,                  \* allocations the native library has released
  sdlError,               \* the text SDL_GetError() returns
  nativeSteps,            \* steps the native library has taken
  ret                     \* the outcome of the layer call the host is in,
                          \* cleared once the native library runs again

templates == <<surface_template_, rect_template_, pixelformat_template_,
               joystick_template_, font_template_>>
native == <<mem, freed, sdlError, nativeSteps>>
vars == <<surface_template_, rect_template_, pixelformat_template_,
          joystick_template_, font_template_, made, wrappers,
          mem, freed, sdlError, nativeSteps, ret>>

Units == {"Surface", "Rect", "PixelFormat", "Joystick", "Font"}

\* an empty Persistent handle
Empty == [unit |-> "", serial |-> 0, internalFieldCount |-> 0, accessors |-> {}]

\* no wrapper object
NoObject == [templ |-> [unit |-> "", serial |-> 0], fields |-> << >>]

\* a call the host makes: the function or getter, and the wrapper it is
\* called on (NoObject for a function that takes none)
Call(op, self) ==
  [op |-> op, self |-> self]

\* the outcome of a call: the call, its pointer or label argument, and the
\* kind and value of what it handed the host
Ret(call, arg, kind, val) ==
  [op |-> call.op, self |-> call.self, arg |-> arg, kind |-> kind, val |-> val]

\* nothing returned and not yet consumed by the host
NoRet == Ret(Call("", NoObject), "", "none", 0)

\* the process died on a bad memory access inside the call
Crash(call) == Ret(call, "", "crash", 0)

\* the process is alive: no read through a bad pointer has faulted
Running ==
  ret.kind # "crash"

\* p points into an allocation the native library still holds
Valid(p) ==
  p # NULL /\ Owner(p) \notin freed

\* the struct at address p
Load(p) ==
  IF Owner(p) = p THEN mem[p] ELSE mem[Owner(p)].clip_rect

(* --------------------------- V8 primitives ----------------------------- *)

\* IsEmpty, as if the template were never stored in its static handle
IsEmptyAlways(handle) ==
  TRUE

IsEmpty(handle) ==
  handle = Empty

\* ExternalNew, dropping the pointer it is given
ExternalNull(ptr) ==
  [external |-> NULL]

\* External::New(ptr) and External::Value()
ExternalNew(ptr) ==
  [external |-> ptr]

Value(field) ==
  field.external

Undefined == [external |-> "undefined"]

\* templ->NewInstance(): an object with the template's internal fields, unset
NewInstance(templ) ==
  [templ |-> [unit |-> templ.unit, serial |-> templ.serial], fields |-> [i \in 1..templ.internalFieldCount |-> Undefined]]

\* Allocate, handing out the object of an earlier call for the same pointer
AllocateShared(heap, obj) ==
  IF BagIn(obj, heap) THEN heap ELSE heap (+) SetToBag({obj})

\* the heap after NewInstance() allocated obj: one more object, whatever the
\* heap already holds
Allocate(heap, obj) ==
  heap (+) SetToBag({obj})

\* obj->SetInternalField(index, value), index counted from 0
SetInternalField(obj, index, value) ==
  [obj EXCEPT !.fields[index + 1] = value]

GetInternalField(obj, index) ==
  obj.fields[index + 1]


\* the struct at address p when the process began
InitialLoad(p) ==
  IF p \in SurfaceObjs THEN InitSurface
  ELSE IF p \in FormatObjs THEN InitFormat
  ELSE InitRect

\* Deref, reading a copy taken earlier instead of the live struct
DerefStale(p, f, domain) ==
  IF Valid(p)
    THEN {[ok |-> TRUE, val |-> InitialLoad(p)[f]]}
    ELSE {[ok |-> TRUE, val |-> v] : v \in domain}
           \cup {[ok |-> FALSE, val |-> CHOOSE v \in domain : TRUE]}

\* the outcomes of reading field f through p: the field's value when p is
\* valid; anything, or a fault, when it is null or dangling
Deref(p, f, domain) ==
  IF Valid(p)
    THEN {[ok |-> TRUE, val |-> Load(p)[f]]}
    ELSE {[ok |-> TRUE, val |-> v] : v \in domain}
           \cup {[ok |-> FALSE, val |-> CHOOSE v \in domain : TRUE]}

\* the outcomes of taking the address of the clip rectangle through p
AddressOfClipRect(p) ==
  IF Valid(p)
    THEN {[ok |-> TRUE, val |-> ClipRectOf(p)]}
    ELSE {[ok |-> TRUE, val |-> v] : v \in RectPtrs}
           \cup {[ok |-> FALSE, val |-> NULL]}

\* Number::New(value)
NumberNew(call, r) ==
  IF r.ok THEN Ret(call, "", "number", r.val) ELSE Crash(call)

(* ------------------------- error formatting ---------------------------- *)

\* SDL_GetError()
SDL_GetError ==
  sdlError

\* StringConcat with its operands the wrong way round
StringConcatSwapped(left, right) ==
  right \o left

\* String::Concat(left, right)
StringConcat(left, right) ==
  left \o right

\* Exception::Error(message)
ExceptionError(message) ==
  [message |-> message]

\* the value MakeSDLException(name) builds
MakeSDLException(name) ==
  ExceptionError(StringConcat(StringConcat(name, ": "), SDL_GetError))

CallMakeSDLException(name) ==
  /\ Running
  /\ ret' = Ret(Call("MakeSDLException", NoObject), name, "error", MakeSDLException(name))
  /\ UNCHANGED <<templates, made, wrappers, native>>

\* ThrowSDLException, clearing the library's error once it is reported
ThrowSDLExceptionClearing(name) ==
  /\ Running
  /\ ret' = Ret(Call("ThrowSDLException", NoObject), name, "throw", MakeSDLException(name))
  /\ sdlError' = ""
  /\ UNCHANGED <<templates, made, wrappers, mem, freed, nativeSteps>>

\* ThrowException(MakeSDLException(name))
ThrowSDLException(name) ==
  /\ Running
  /\ ret' = Ret(Call("ThrowSDLException", NoObject), name, "throw", MakeSDLException(name))
  /\ UNCHANGED <<templates, made, wrappers, native>>

(* ------------------------------ Surface -------------------------------- *)

MakeSurfaceTemplate(serial) ==
  [unit |-> "Surface", serial |-> serial, internalFieldCount |-> 1,
   accessors |-> {<<"flags", "GetSurfaceFlags">>, <<"format", "GetSurfaceFormat">>,
                  <<"w", "GetSurfaceWidth">>, <<"h", "GetSurfaceHeight">>,
                  <<"pitch", "GetSurfacePitch">>, <<"clip_rect", "GetSurfaceRect">>}]

\* the template WrapSurface instantiates: made on demand, then kept
SurfaceTemplate ==
  IF IsEmpty(surface_template_)
    THEN MakeSurfaceTemplate(made["Surface"] + 1)
    ELSE surface_template_

\* the object WrapSurface(surface) returns
WrapSurfaceResult(surface) ==
  SetInternalField(NewInstance(SurfaceTemplate), 0, ExternalNew(surface))

WrapSurface(surface, call) ==
  /\ Running
  /\ BagCardinality(wrappers) < MaxWrappers
  /\ surface_template_' = SurfaceTemplate
  /\ made' = [made EXCEPT !["Surface"] = IF IsEmpty(surface_template_) THEN @ + 1 ELSE @]
  /\ wrappers' = Allocate(wrappers, WrapSurfaceResult(surface))
  /\ ret' = Ret(call, surface, "object", WrapSurfaceResult(surface))
  /\ UNCHANGED <<rect_template_, pixelformat_template_, joystick_template_,
                 font_template_, native>>

UnwrapSurface(obj) ==
  Value(GetInternalField(obj, 0))

CallUnwrapSurface(obj) ==
  /\ Running
  /\ BagIn(obj, wrappers)
  /\ obj.templ.unit = "Surface"
  /\ ret' = Ret(Call("UnwrapSurface", obj), "", "pointer", UnwrapSurface(obj))
  /\ UNCHANGED <<templates, made, wrappers, native>>

(* -------------------------------- Rect --------------------------------- *)

MakeRectTemplate(serial) ==
  [unit |-> "Rect", serial |-> serial, internalFieldCount |-> 1,
   accessors |-> {<<"x", "GetRectX">>, <<"y", "GetRectY">>,
                  <<"w", "GetRectW">>, <<"h", "GetRectH">>}]

RectTemplate ==
  IF IsEmpty(rect_template_)
    THEN MakeRectTemplate(made["Rect"] + 1)
    ELSE rect_template_

WrapRectResult(rect) ==
  SetInternalField(NewInstance(RectTemplate), 0, ExternalNew(rect))

WrapRect(rect, call) ==
  /\ Running
  /\ BagCardinality(wrappers) < MaxWrappers
  /\ rect_template_' = RectTemplate
  /\ made' = [made EXCEPT !["Rect"] = IF IsEmpty(rect_template_) THEN @ + 1 ELSE @]
  /\ wrappers' = Allocate(wrappers, WrapRectResult(rect))
  /\ ret' = Ret(call, rect, "object", WrapRectResult(rect))
  /\ UNCHANGED <<surface_template_, pixelformat_template_, joystick_template_,
                 font_template_, native>>

UnwrapRect(obj) ==
  Value(GetInternalField(obj, 0))

CallUnwrapRect(obj) ==
  /\ Running
  /\ BagIn(obj, wrappers)
  /\ obj.templ.unit = "Rect"
  /\ ret' = Ret(Call("UnwrapRect", obj), "", "pointer", UnwrapRect(obj))
  /\ UNCHANGED <<templates, made, wrappers, native>>

(* ----------------------------- PixelFormat ----------------------------- *)

MakePixelFormatTemplate(serial) ==
  [unit |-> "PixelFormat", serial |-> serial, internalFieldCount |-> 1,
   accessors |-> {<<"bitsPerPixel", "GetFormatBits">>, <<"bytesPerPixel", "GetFormatBytes">>,
                  <<"colorkey", "GetFormatColorkey">>, <<"alpha", "GetFormatAlpha">>}]

PixelFormatTemplate ==
  IF IsEmpty(pixelformat_template_)
    THEN MakePixelFormatTemplate(made["PixelFormat"] + 1)
    ELSE pixelformat_template_

WrapPixelFormatResult(pixelformat) ==
  SetInternalField(NewInstance(PixelFormatTemplate), 0, ExternalNew(pixelformat))

WrapPixelFormat(pixelformat, call) ==
  /\ Running
  /\ BagCardinality(wrappers) < MaxWrappers
  /\ pixelformat_template_' = PixelFormatTemplate
  /\ made' = [made EXCEPT !["PixelFormat"] = IF IsEmpty(pixelformat_template_) THEN @ + 1 ELSE @]
  /\ wrappers' = Allocate(wrappers, WrapPixelFormatResult(pixelformat))
  /\ ret' = Ret(call, pixelformat, "object", WrapPixelFormatResult(pixelformat))
  /\ UNCHANGED <<surface_template_, rect_template_, joystick_template_,
                 font_template_, native>>

UnwrapPixelFormat(obj) ==
  Value(GetInternalField(obj, 0))

CallUnwrapPixelFormat(obj) ==
  /\ Running
  /\ BagIn(obj, wrappers)
  /\ obj.templ.unit = "PixelFormat"
  /\ ret' = Ret(Call("UnwrapPixelFormat", obj), "", "pointer", UnwrapPixelFormat(obj))
  /\ UNCHANGED <<templates, made, wrappers, native>>

(* ------------------------------ Joystick ------------------------------- *)

\* MakeJoystickTemplate with the first commented-out SetAccessor call live
MakeJoystickTemplateWithFlags(serial) ==
  [unit |-> "Joystick", serial |-> serial, internalFieldCount |-> 1,
   accessors |-> {<<"flags", "GetJoystickFlags">>}]

\* every SetAccessor call of this template is commented out
MakeJoystickTemplate(serial) ==
  [unit |-> "Joystick", serial |-> serial, internalFieldCount |-> 1, accessors |-> {}]

JoystickTemplate ==
  IF IsEmpty(joystick_template_)
    THEN MakeJoystickTemplate(made["Joystick"] + 1)
    ELSE joystick_template_

WrapJoystickResult(joystick) ==
  SetInternalField(NewInstance(JoystickTemplate), 0, ExternalNew(joystick))

\* WrapJoystick, keeping its template in the Font unit's static handle
WrapJoystickFontSlot(joystick, call) ==
  /\ Running
  /\ BagCardinality(wrappers) < MaxWrappers
  /\ font_template_' = IF IsEmpty(font_template_)
                         THEN MakeJoystickTemplate(made["Joystick"] + 1)
                         ELSE font_template_
  /\ made' = [made EXCEPT !["Joystick"] = IF IsEmpty(font_template_) THEN @ + 1 ELSE @]
  /\ wrappers' = Allocate(wrappers,
                    SetInternalField(NewInstance(font_template_'), 0, ExternalNew(joystick)))
  /\ ret' = Ret(call, joystick, "object",
                SetInternalField(NewInstance(font_template_'), 0, ExternalNew(joystick)))
  /\ UNCHANGED <<surface_template_, rect_template_, pixelformat_template_,
                 joystick_template_, native>>

WrapJoystick(joystick, call) ==
  /\ Running
  /\ BagCardinality(wrappers) < MaxWrappers
  /\ joystick_template_' = JoystickTemplate
  /\ made' = [made EXCEPT !["Joystick"] = IF IsEmpty(joystick_template_) THEN @ + 1 ELSE @]
  /\ wrappers' = Allocate(wrappers, WrapJoystickResult(joystick))
  /\ ret' = Ret(call, joystick, "object", WrapJoystickResult(joystick))
  /\ UNCHANGED <<surface_template_, rect_template_, pixelformat_template_,
                 font_template_, native>>

UnwrapJoystick(obj) ==
  Value(GetInternalField(obj, 0))

CallUnwrapJoystick(obj) ==
  /\ Running
  /\ BagIn(obj, wrappers)
  /\ obj.templ.unit = "Joystick"
  /\ ret' = Ret(Call("UnwrapJoystick", obj), "", "pointer", UnwrapJoystick(obj))
  /\ UNCHANGED <<templates, made, wrappers, native>>

(* -------------------------------- Font --------------------------------- *)

\* every SetAccessor call of this template is commented out
MakeFontTemplate(serial) ==
  [unit |-> "Font", serial |-> serial, internalFieldCount |-> 1, accessors |-> {}]

FontTemplate ==
  IF IsEmpty(font_template_)
    THEN MakeFontTemplate(made["Font"] + 1)
    ELSE font_template_

WrapFontResult(font) ==
  SetInternalField(NewInstance(FontTemplate), 0, ExternalNew(font))

WrapFont(font, call) ==
  /\ Running
  /\ BagCardinality(wrappers) < MaxWrappers
  /\ font_template_' = FontTemplate
  /\ made' = [made EXCEPT !["Font"] = IF IsEmpty(font_template_) THEN @ + 1 ELSE @]
  /\ wrappers' = Allocate(wrappers, WrapFontResult(font))
  /\ ret' = Ret(call, font, "object", WrapFontResult(font))
  /\ UNCHANGED <<surface_template_, rect_template_, pixelformat_template_,
                 joystick_template_, native>>

UnwrapFont(obj) ==
  Value(GetInternalField(obj, 0))

CallUnwrapFont(obj) ==
  /\ Running
  /\ BagIn(obj, wrappers)
  /\ obj.templ.unit = "Font"
  /\ ret' = Ret(Call("UnwrapFont", obj), "", "pointer", UnwrapFont(obj))
  /\ UNCHANGED <<templates, made, wrappers, native>>

(* --------------------------- property getters -------------------------- *)

\* the template object an instance was made from
TemplateOf(obj) ==
  CASE obj.templ.unit = "Surface" -> MakeSurfaceTemplate(obj.templ.serial)
    [] obj.templ.unit = "Rect" -> MakeRectTemplate(obj.templ.serial)
    [] obj.templ.unit = "PixelFormat" -> MakePixelFormatTemplate(obj.templ.serial)
    [] obj.templ.unit = "Joystick" -> MakeJoystickTemplate(obj.templ.serial)
    [] obj.templ.unit = "Font" -> MakeFontTemplate(obj.templ.serial)

\* a property read reaches the getter the object's template registered
HasAccessor(holder, name, getter) ==
  <<name, getter>> \in TemplateOf(holder).accessors

GetSurfaceFlags(holder) ==
  /\ Running
  /\ BagIn(holder, wrappers)
  /\ HasAccessor(holder, "flags", "GetSurfaceFlags")
  /\ LET surface == UnwrapSurface(holder) IN
       \E r \in Deref(surface, "flags", Values) :
          ret' = NumberNew(Call("GetSurfaceFlags", holder), r)
  /\ UNCHANGED <<templates, made, wrappers, native>>

\* GetSurfaceFormat, handing out again the PixelFormat wrapper of an earlier
\* read when the heap holds one for the pointer
GetSurfaceFormatCached(holder) ==
  /\ Running
  /\ BagIn(holder, wrappers)
  /\ HasAccessor(holder, "format", "GetSurfaceFormat")
  /\ LET surface == UnwrapSurface(holder) IN
       \E r \in Deref(surface, "format", FormatPtrs) :
          IF r.ok /\ ~BagIn(WrapPixelFormatResult(r.val), wrappers)
            THEN WrapPixelFormat(r.val, Call("GetSurfaceFormat", holder))
            ELSE /\ ret' = IF r.ok
                             THEN Ret(Call("GetSurfaceFormat", holder), r.val, "object",
                                      WrapPixelFormatResult(r.val))
                             ELSE Crash(Call("GetSurfaceFormat", holder))
                 /\ UNCHANGED <<templates, made, wrappers, native>>

\* return scope.Close(WrapPixelFormat(surface->format))
GetSurfaceFormat(holder) ==
  /\ Running
  /\ BagIn(holder, wrappers)
  /\ HasAccessor(holder, "format", "GetSurfaceFormat")
  /\ LET surface == UnwrapSurface(holder) IN
       \E r \in Deref(surface, "format", FormatPtrs) :
          IF r.ok
            THEN WrapPixelFormat(r.val, Call("GetSurfaceFormat", holder))
            ELSE /\ ret' = Crash(Call("GetSurfaceFormat", holder))
                 /\ UNCHANGED <<templates, made, wrappers, native>>

\* GetSurfaceWidth, refusing a pointer the library no longer holds
GetSurfaceWidthChecked(holder) ==
  /\ Running
  /\ BagIn(holder, wrappers)
  /\ HasAccessor(holder, "w", "GetSurfaceWidth")
  /\ LET surface == UnwrapSurface(holder) IN
       IF Valid(surface)
         THEN ret' = Ret(Call("GetSurfaceWidth", holder), "", "number", Load(surface).w)
         ELSE ret' = Ret(Call("GetSurfaceWidth", holder), "", "throw",
                         ExceptionError("surface is gone"))
  /\ UNCHANGED <<templates, made, wrappers, native>>

GetSurfaceWidth(holder) ==
  /\ Running
  /\ BagIn(holder, wrappers)
  /\ HasAccessor(holder, "w", "GetSurfaceWidth")
  /\ LET surface == UnwrapSurface(holder) IN
       \E r \in Deref(surface, "w", Values) :
          ret' = NumberNew(Call("GetSurfaceWidth", holder), r)
  /\ UNCHANGED <<templates, made, wrappers, native>>

GetSurfaceHeight(holder) ==
  /\ Running
  /\ BagIn(holder, wrappers)
  /\ HasAccessor(holder, "h", "GetSurfaceHeight")
  /\ LET surface == UnwrapSurface(holder) IN
       \E r \in Deref(surface, "h", Values) :
          ret' = NumberNew(Call("GetSurfaceHeight", holder), r)
  /\ UNCHANGED <<templates, made, wrappers, native>>

GetSurfacePitch(holder) ==
  /\ Running
  /\ BagIn(holder, wrappers)
  /\ HasAccessor(holder, "pitch", "GetSurfacePitch")
  /\ LET surface == UnwrapSurface(holder) IN
       \E r \in Deref(surface, "pitch", Values) :
          ret' = NumberNew(Call("GetSurfacePitch", holder), r)
  /\ UNCHANGED <<templates, made, wrappers, native>>

\* return scope.Close(WrapRect(&surface->clip_rect))
GetSurfaceRect(holder) ==
  /\ Running
  /\ BagIn(holder, wrappers)
  /\ HasAccessor(holder, "clip_rect", "GetSurfaceRect")
  /\ LET surface == UnwrapSurface(holder) IN
       \E r \in AddressOfClipRect(surface) :
          IF r.ok
            THEN WrapRect(r.val, Call("GetSurfaceRect", holder))
            ELSE /\ ret' = Crash(Call("GetSurfaceRect", holder))
                 /\ UNCHANGED <<templates, made, wrappers, native>>

GetRectX(holder) ==
  /\ Running
  /\ BagIn(holder, wrappers)
  /\ HasAccessor(holder, "x", "GetRectX")
  /\ LET rect == UnwrapRect(holder) IN
       \E r \in Deref(rect, "x", Values) :
          ret' = NumberNew(Call("GetRectX", holder), r)
  /\ UNCHANGED <<templates, made, wrappers, native>>

GetRectY(holder) ==
  /\ Running
  /\ BagIn(holder, wrappers)
  /\ HasAccessor(holder, "y", "GetRectY")
  /\ LET rect == UnwrapRect(holder) IN
       \E r \in Deref(rect, "y", Values) :
          ret' = NumberNew(Call("GetRectY", holder), r)
  /\ UNCHANGED <<templates, made, wrappers, native>>

GetRectW(holder) ==
  /\ Running
  /\ BagIn(holder, wrappers)
  /\ HasAccessor(holder, "w", "GetRectW")
  /\ LET rect == UnwrapRect(holder) IN
       \E r \in Deref(rect, "w", Values) :
          ret' = NumberNew(Call("GetRectW", holder), r)
  /\ UNCHANGED <<templates, made, wrappers, native>>

GetRectH(holder) ==
  /\ Running
  /\ BagIn(holder, wrappers)
  /\ HasAccessor(holder, "h", "GetRectH")
  /\ LET rect == UnwrapRect(holder) IN
       \E r \in Deref(rect, "h", Values) :
          ret' = NumberNew(Call("GetRectH", holder), r)
  /\ UNCHANGED <<templates, made, wrappers, native>>

GetFormatBits(holder) ==
  /\ Running
  /\ BagIn(holder, wrappers)
  /\ HasAccessor(holder, "bitsPerPixel", "GetFormatBits")
  /\ LET format == UnwrapPixelFormat(holder) IN
       \E r \in Deref(format, "BitsPerPixel", Values) :
          ret' = NumberNew(Call("GetFormatBits", holder), r)
  /\ UNCHANGED <<templates, made, wrappers, native>>

GetFormatBytes(holder) ==
  /\ Running
  /\ BagIn(holder, wrappers)
  /\ HasAccessor(holder, "bytesPerPixel", "GetFormatBytes")
  /\ LET format == UnwrapPixelFormat(holder) IN
       \E r \in Deref(format, "BytesPerPixel", Values) :
          ret' = NumberNew(Call("GetFormatBytes", holder), r)
  /\ UNCHANGED <<templates, made, wrappers, native>>

GetFormatColorkey(holder) ==
  /\ Running
  /\ BagIn(holder, wrappers)
  /\ HasAccessor(holder, "colorkey", "GetFormatColorkey")
  /\ LET format == UnwrapPixelFormat(holder) IN
       \E r \in Deref(format, "colorkey", Values) :
          ret' = NumberNew(Call("GetFormatColorkey", holder), r)
  /\ UNCHANGED <<templates, made, wrappers, native>>

GetFormatAlpha(holder) ==
  /\ Running
  /\ BagIn(holder, wrappers)
  /\ HasAccessor(holder, "alpha", "GetFormatAlpha")
  /\ LET format == UnwrapPixelFormat(holder) IN
       \E r \in Deref(format, "alpha", Values) :
          ret' = NumberNew(Call("GetFormatAlpha", holder), r)
  /\ UNCHANGED <<templates, made, wrappers, native>>

(* ------------------- the native library (environment) ------------------ *)

NativeWriteSurface(surface, struct) ==
  /\ Running
  /\ nativeSteps < MaxNativeSteps
  /\ Valid(surface)
  /\ struct # mem[surface]
  /\ mem' = [mem EXCEPT ![surface] = struct]
  /\ nativeSteps' = nativeSteps + 1
  /\ ret' = NoRet
  /\ UNCHANGED <<templates, made, wrappers, freed, sdlError>>

NativeWriteRect(rect, struct) ==
  /\ Running
  /\ nativeSteps < MaxNativeSteps
  /\ Valid(rect)
  /\ struct # Load(rect)
  /\ mem' = IF Owner(rect) = rect
              THEN [mem EXCEPT ![rect] = struct]
              ELSE [mem EXCEPT ![Owner(rect)].clip_rect = struct]
  /\ nativeSteps' = nativeSteps + 1
  /\ ret' = NoRet
  /\ UNCHANGED <<templates, made, wrappers, freed, sdlError>>

NativeWriteFormat(format, struct) ==
  /\ Running
  /\ nativeSteps < MaxNativeSteps
  /\ Valid(format)
  /\ struct # mem[format]
  /\ mem' = [mem EXCEPT ![format] = struct]
  /\ nativeSteps' = nativeSteps + 1
  /\ ret' = NoRet
  /\ UNCHANGED <<templates, made, wrappers, freed, sdlError>>

\* SDL_FreeSurface, SDL_JoystickClose, TTF_CloseFont, ... by the library's user
NativeFree(object) ==
  /\ Running
  /\ nativeSteps < MaxNativeSteps
  /\ object \notin freed
  /\ freed' = freed \cup {object}
  /\ nativeSteps' = nativeSteps + 1
  /\ ret' = NoRet
  /\ UNCHANGED <<templates, made, wrappers, mem, sdlError>>

\* SDL_SetError / SDL_ClearError inside the library
NativeSetError(text) ==
  /\ Running
  /\ nativeSteps < MaxNativeSteps
  /\ text # sdlError
  /\ sdlError' = text
  /\ nativeSteps' = nativeSteps + 1
  /\ ret' = NoRet
  /\ UNCHANGED <<templates, made, wrappers, mem, freed>>

(* --------------------------- the state machine ------------------------- *)

Init ==
  /\ surface_template_ = Empty
  /\ rect_template_ = Empty
  /\ pixelformat_template_ = Empty
  /\ joystick_template_ = Empty
  /\ font_template_ = Empty
  /\ made = [u \in Units |-> 0]
  /\ wrappers = EmptyBag
  /\ mem = [p \in SurfaceObjs \cup RectObjs \cup FormatObjs |->
              IF p \in SurfaceObjs THEN InitSurface
              ELSE IF p \in FormatObjs THEN InitFormat
              ELSE InitRect]
  /\ freed = {}
  /\ sdlError = ""
  /\ nativeSteps = 0
  /\ ret = NoRet

Objects == BagToSet(wrappers)

Next ==
  \/ \E p \in SurfacePtrs : WrapSurface(p, Call("WrapSurface", NoObject))
  \/ \E p \in RectPtrs : WrapRect(p, Call("WrapRect", NoObject))
  \/ \E p \in FormatPtrs : WrapPixelFormat(p, Call("WrapPixelFormat", NoObject))
  \/ \E p \in JoystickPtrs : WrapJoystick(p, Call("WrapJoystick", NoObject))
  \/ \E p \in FontPtrs : WrapFont(p, Call("WrapFont", NoObject))
  \/ \E o \in Objects : CallUnwrapSurface(o)
  \/ \E o \in Objects : CallUnwrapRect(o)
  \/ \E o \in Objects : CallUnwrapPixelFormat(o)
  \/ \E o \in Objects : CallUnwrapJoystick(o)
  \/ \E o \in Objects : CallUnwrapFont(o)
  \/ \E o \in Objects : GetSurfaceFlags(o)
  \/ \E o \in Objects : GetSurfaceFormat(o)
  \/ \E o \in Objects : GetSurfaceWidth(o)
  \/ \E o \in Objects : GetSurfaceHeight(o)
  \/ \E o \in Objects : GetSurfacePitch(o)
  \/ \E o \in Objects : GetSurfaceRect(o)
  \/ \E o \in Objects : GetRectX(o)
  \/ \E o \in Objects : GetRectY(o)
  \/ \E o \in Objects : GetRectW(o)
  \/ \E o \in Objects : GetRectH(o)
  \/ \E o \in Objects : GetFormatBits(o)
  \/ \E o \in Objects : GetFormatBytes(o)
  \/ \E o \in Objects : GetFormatColorkey(o)
  \/ \E o \in Objects : GetFormatAlpha(o)
  \/ \E name \in Labels : CallMakeSDLException(name)
  \/ \E name \in Labels : ThrowSDLException(name)
  \/ \E s \in SurfaceObjs, v \in SurfaceStructs : NativeWriteSurface(s, v)
  \/ \E r \in RectPtrs \ {NULL}, v \in RectStructs : NativeWriteRect(r, v)
  \/ \E f \in FormatObjs, v \in FormatStructs : NativeWriteFormat(f, v)
  \/ \E a \in Allocations : NativeFree(a)
  \/ \E t \in ErrorTexts : NativeSetError(t)

Spec == Init /\ [][Next]_vars

(* ------------------------- vocabulary of the claims --------------------- *)

UnitOf(obj) == obj.templ.unit

\* the pointer in internal field 0 of a wrapper
PointerOf(obj) == obj.fields[1].external

\* the wrapper object a Wrap function of unit u makes for pointer p
WrapperOf(u, p) ==
  [templ |-> [unit |-> u, serial |-> 1], fields |-> <<[external |-> p]>>]

OfUnit(u) == {o \in Objects : UnitOf(o) = u}

Slot(u) ==
  CASE u = "Surface" -> surface_template_
    [] u = "Rect" -> rect_template_
    [] u = "PixelFormat" -> pixelformat_template_
    [] u = "Joystick" -> joystick_template_
    [] u = "Font" -> font_template_

PtrsOf(u) ==
  CASE u = "Surface" -> SurfacePtrs
    [] u = "Rect" -> RectPtrs
    [] u = "PixelFormat" -> FormatPtrs
    [] u = "Joystick" -> JoystickPtrs
    [] u = "Font" -> FontPtrs

\* the calls of each unit, by the name the outcome carries
WrapOp(u) == "Wrap" \o u
UnwrapOp(u) == "Unwrap" \o u
WrapOps == {WrapOp(u) : u \in Units}
UnwrapOps == {UnwrapOp(u) : u \in Units}
NestedOps == {"GetSurfaceFormat", "GetSurfaceRect"}
ErrorOps == {"MakeSDLException", "ThrowSDLException"}

\* the scalar getters: <<getter, unit, struct field>>
ScalarGetters ==
  {<<"GetSurfaceFlags", "Surface", "flags">>, <<"GetSurfaceWidth", "Surface", "w">>,
   <<"GetSurfaceHeight", "Surface", "h">>, <<"GetSurfacePitch", "Surface", "pitch">>,
   <<"GetRectX", "Rect", "x">>, <<"GetRectY", "Rect", "y">>,
   <<"GetRectW", "Rect", "w">>, <<"GetRectH", "Rect", "h">>,
   <<"GetFormatBits", "PixelFormat", "BitsPerPixel">>,
   <<"GetFormatBytes", "PixelFormat", "BytesPerPixel">>,
   <<"GetFormatColorkey", "PixelFormat", "colorkey">>,
   <<"GetFormatAlpha", "PixelFormat", "alpha">>}
ScalarOps == {g[1] : g \in ScalarGetters}

\* the calls that stay inside each unit
OwnOpsOf ==
  [u \in Units |->
     {WrapOp(u), UnwrapOp(u)} \cup {g[1] : g \in {h \in ScalarGetters : h[2] = u}}]

OwnOps(u) == OwnOpsOf[u]

\* the calls of each unit, its getters that call another unit's Wrap included
AllOpsOf ==
  [u \in Units |-> OwnOpsOf[u] \cup (IF u = "Surface" THEN NestedOps ELSE {})]

\* a step that leaves every unit outside us as it was: its template slot,
\* its count of templates made, and its wrappers
OnlyUnits(us) ==
  /\ \A v \in Units \ us : Slot(v)' = Slot(v) /\ made'[v] = made[v]
  /\ \/ wrappers' = wrappers
     \/ \A o \in Objects \cup BagToSet(wrappers') :
          UnitOf(o) \notin us => CopiesIn(o, wrappers') = CopiesIn(o, wrappers)

\* a step that adds obj to the heap as one more object, and changes no other
NewObject(obj) ==
  /\ CopiesIn(obj, wrappers') = CopiesIn(obj, wrappers) + 1
  /\ BagToSet(wrappers') = Objects \cup {obj}
  /\ \A o \in Objects \ {obj} : CopiesIn(o, wrappers') = CopiesIn(o, wrappers)

(* ------------------------------- C1 ------------------------------------ *)

\* C1: every scalar accessor of a Surface, Rect or PixelFormat wrapper returns
\* the value its native struct field holds at the moment of the read (the
\* struct being one the library still holds), so a read after the library
\* changed the field returns the new value, never an earlier one.
C1_ReadsCurrentField ==
  \A g \in ScalarGetters :
    (ret.op = g[1] /\ Valid(PointerOf(ret.self))) =>
      /\ UnitOf(ret.self) = g[2]
      /\ ret.kind = "number"
      /\ ret.val = Load(PointerOf(ret.self))[g[3]]

\* the library has rewritten surface S1 since the process began, and the
\* width just read through a wrapper of S1 is the new one
C1_Witness ==
  /\ ret.op = "GetSurfaceWidth"
  /\ PointerOf(ret.self) = "S1"
  /\ "S1" \notin freed
  /\ nativeSteps = 1
  /\ mem["S1"].w # InitSurface.w
  /\ ret.val = mem["S1"].w

(* ------------------------------- C2 ------------------------------------ *)

\* C2: every call of a Wrap function makes one more wrapper object holding
\* the pointer it was given, also when a wrapper of that pointer exists: two
\* calls with one pointer give two objects.  No call changes or removes a
\* wrapper the heap holds: a step that is not a Wrap call, nor a getter
\* calling one, leaves the heap as it was.
C2_TwoWrapsTwoObjects ==
  [][/\ \A u \in Units :
          ret'.op = WrapOp(u) =>
            /\ ret'.kind = "object"
            /\ ret'.val = WrapperOf(u, ret'.arg)
            /\ NewObject(ret'.val)
     /\ ret'.op \notin WrapOps \cup NestedOps => wrappers' = wrappers]_vars

\* the second WrapRect(R1) has returned: the heap holds two wrappers of R1
C2_Witness ==
  /\ ret.op = "WrapRect"
  /\ ret.arg = "R1"
  /\ ret.val = WrapperOf("Rect", "R1")
  /\ CopiesIn(ret.val, wrappers) = 2

(* ------------------------------- C3 ------------------------------------ *)

\* C3: the message of the Error MakeSDLException(name) makes, and of the one
\* ThrowSDLException(name) throws, is name, then ": ", then the text
\* SDL_GetError returns at the call, and nothing else.
C3_MessageIsLabelColonError ==
  ret.op \in ErrorOps =>
    /\ ret.kind = (IF ret.op = "ThrowSDLException" THEN "throw" ELSE "error")
    /\ ret.arg \in Labels
    /\ ret.val.message = ret.arg \o ": " \o sdlError
    /\ Len(ret.val.message) = Len(ret.arg) + 2 + Len(sdlError)

\* thrown after the library failed to find a video device
C3_Witness ==
  /\ ret.op = "ThrowSDLException"
  /\ ret.kind = "throw"
  /\ sdlError = "No available video device"
  /\ ret.val.message = "SDL_Init: No available video device"

(* ------------------------------- C4 ------------------------------------ *)

\* C4: each unit's template is made lazily and at most once: while no
\* wrapper of the unit was made the slot is empty and MakeXTemplate has not
\* run; from the first WrapX call on MakeXTemplate has run exactly once, the
\* slot holds that template, and every wrapper of the unit is an instance
\* of it.
C4_TemplateMadeOnce ==
  \A u \in Units :
    \/ /\ made[u] = 0
       /\ Slot(u) = Empty
       /\ OfUnit(u) = {}
    \/ /\ made[u] = 1
       /\ Slot(u) # Empty
       /\ Slot(u).unit = u
       /\ Slot(u).serial = 1
       /\ OfUnit(u) # {}
       /\ \A o \in OfUnit(u) : o.templ = [unit |-> u, serial |-> Slot(u).serial]

\* the PixelFormat template was made once and has served three wrappers
C4_Witness ==
  /\ made["PixelFormat"] = 1
  /\ pixelformat_template_ # Empty
  /\ BagCardinality(wrappers) = 3
  /\ \A o \in Objects : UnitOf(o) = "PixelFormat"

(* ------------------------------- C5 ------------------------------------ *)

\* C5: a wrapper has one internal field, field 0, holding a pointer of its
\* unit; UnwrapX of what WrapX(p) returned is p; UnwrapX of a wrapper
\* returns the pointer in its field 0; and no later step changes a wrapper,
\* so UnwrapX keeps returning that pointer.
C5_PointerIdentity ==
  [][/\ \A o \in BagToSet(wrappers') :
          /\ DOMAIN o.fields = {1}
          /\ o.fields[1].external \in PtrsOf(UnitOf(o))
     /\ ret'.op = "WrapSurface" => UnwrapSurface(ret'.val) = ret'.arg
     /\ ret'.op = "WrapRect" => UnwrapRect(ret'.val) = ret'.arg
     /\ ret'.op = "WrapPixelFormat" => UnwrapPixelFormat(ret'.val) = ret'.arg
     /\ ret'.op = "WrapJoystick" => UnwrapJoystick(ret'.val) = ret'.arg
     /\ ret'.op = "WrapFont" => UnwrapFont(ret'.val) = ret'.arg
     /\ ret'.op \in UnwrapOps =>
          /\ BagIn(ret'.self, wrappers)
          /\ ret'.op = UnwrapOp(UnitOf(ret'.self))
          /\ ret'.kind = "pointer"
          /\ ret'.val = ret'.self.fields[1].external
     /\ wrappers \sqsubseteq wrappers']_vars

\* UnwrapFont on a wrapper of T1 returns T1 after further wraps and the
\* release of T1 by the library
C5_Witness ==
  /\ ret.op = "UnwrapFont"
  /\ ret.self = WrapperOf("Font", "T1")
  /\ ret.val = "T1"
  /\ "T1" \in freed
  /\ BagCardinality(wrappers) = 3

(* ------------------------------- C6 ------------------------------------ *)

\* C6: no call into the layer (a Wrap, an Unwrap, a getter, MakeSDLException,
\* ThrowSDLException) changes a field of a native struct, releases a native
\* object or changes the library's error text.
C6_LayerLeavesNativeAlone ==
  [][ret'.op # "" => /\ mem' = mem
                     /\ freed' = freed
                     /\ sdlError' = sdlError
                     /\ nativeSteps' = nativeSteps]_vars

\* an exception was thrown while the library's error text was set and the
\* heap was full of wrappers: the text is still there
C6_Witness ==
  /\ ret.op = "ThrowSDLException"
  /\ sdlError = "No available video device"
  /\ BagCardinality(wrappers) = MaxWrappers
  /\ mem["S1"] = InitSurface
  /\ freed = {}

(* ------------------------------- C7 ------------------------------------ *)

\* C7 as stated: no call of one unit changes the template slot or the
\* wrappers of another unit.
C7_Original ==
  [][\A u \in Units : ret'.op \in AllOpsOf[u] => OnlyUnits({u})]_vars

\* C7, amended: a Wrap, an Unwrap and a scalar getter of a unit change that
\* unit only, and the exception helpers change none; but reading a Surface
\* wrapper's format calls WrapPixelFormat and reading its clip_rect calls
\* WrapRect: those two change the PixelFormat unit, respectively the Rect
\* unit (its template slot when empty, and one new wrapper), and no other.
C7_UnitsApartButForNestedGetters ==
  [][/\ \A u \in Units : ret'.op \in OwnOps(u) => OnlyUnits({u})
     /\ ret'.op \in ErrorOps => OnlyUnits({})
     /\ ret'.op = "GetSurfaceFormat" => OnlyUnits({"PixelFormat"})
     /\ ret'.op = "GetSurfaceRect" => OnlyUnits({"Rect"})]_vars

\* reading format on the one Surface wrapper made the PixelFormat template
\* and the first PixelFormat wrapper; Rect, Joystick and Font are untouched
C7_Witness ==
  /\ ret.op = "GetSurfaceFormat"
  /\ ret.kind = "object"
  /\ UnitOf(ret.val) = "PixelFormat"
  /\ made = [u \in Units |-> IF u \in {"Surface", "PixelFormat"} THEN 1 ELSE 0]
  /\ BagCardinality(wrappers) = 2
  /\ rect_template_ = Empty /\ joystick_template_ = Empty /\ font_template_ = Empty

(* ------------------------------- C8 ------------------------------------ *)

\* the property names a unit's wrappers expose
Exposed(u) ==
  CASE u = "Surface" -> {"flags", "format", "w", "h", "pitch", "clip_rect"}
    [] u = "Rect" -> {"x", "y", "w", "h"}
    [] u = "PixelFormat" -> {"bitsPerPixel", "bytesPerPixel", "colorkey", "alpha"}
    [] u = "Joystick" -> {}
    [] u = "Font" -> {}

\* C8: the properties of a wrapper are those of its unit's template, the
\* same for every wrapper of the unit: six for a Surface, four for a Rect,
\* four for a PixelFormat, none for a Joystick or a Font, which still hold
\* their pointer in the one internal field; and a getter only ever runs on a
\* wrapper whose template registered it.
C8_ExposedProperties ==
  /\ \A o \in Objects :
       /\ {a[1] : a \in TemplateOf(o).accessors} = Exposed(UnitOf(o))
       /\ Cardinality(TemplateOf(o).accessors) = Cardinality(Exposed(UnitOf(o)))
       /\ TemplateOf(o).internalFieldCount = 1
       /\ PointerOf(o) \in PtrsOf(UnitOf(o))
  /\ \A u \in Units :
       Slot(u) # Empty => {a[1] : a \in Slot(u).accessors} = Exposed(u)
  /\ \A g \in ScalarGetters : ret.op = g[1] => UnitOf(ret.self) = g[2]
  /\ ret.op \in NestedOps => UnitOf(ret.self) = "Surface"

\* a Surface, a Joystick and a Font wrapper side by side
C8_Witness ==
  /\ OfUnit("Surface") # {}
  /\ OfUnit("Joystick") = {WrapperOf("Joystick", "J1")}
  /\ OfUnit("Font") = {WrapperOf("Font", "T1")}

(* ------------------------------- C9 ------------------------------------ *)

\* a Wrap function can be called with p, whatever p is
Accepts(u, p) ==
  CASE u = "Surface" -> ENABLED WrapSurface(p, Call("WrapSurface", NoObject))
    [] u = "Rect" -> ENABLED WrapRect(p, Call("WrapRect", NoObject))
    [] u = "PixelFormat" -> ENABLED WrapPixelFormat(p, Call("WrapPixelFormat", NoObject))
    [] u = "Joystick" -> ENABLED WrapJoystick(p, Call("WrapJoystick", NoObject))
    [] u = "Font" -> ENABLED WrapFont(p, Call("WrapFont", NoObject))

\* every getter of o's template can be called, whatever o's pointer is
Readable(o) ==
  CASE UnitOf(o) = "Surface" ->
         /\ ENABLED GetSurfaceFlags(o) /\ ENABLED GetSurfaceWidth(o)
         /\ ENABLED GetSurfaceHeight(o) /\ ENABLED GetSurfacePitch(o)
    [] UnitOf(o) = "Rect" ->
         /\ ENABLED GetRectX(o) /\ ENABLED GetRectY(o)
         /\ ENABLED GetRectW(o) /\ ENABLED GetRectH(o)
    [] UnitOf(o) = "PixelFormat" ->
         /\ ENABLED GetFormatBits(o) /\ ENABLED GetFormatBytes(o)
         /\ ENABLED GetFormatColorkey(o) /\ ENABLED GetFormatAlpha(o)
    [] OTHER -> TRUE

\* C9: the layer checks no pointer.  While the process runs and the heap has
\* room, every Wrap function takes every pointer, null and released ones
\* too, and returns a wrapper of it; every getter of a wrapper can be
\* called whatever its pointer; a getter called through a null or released
\* pointer returns a number or an object, or the process dies in it, and it
\* never hands the host an exception: only ThrowSDLException throws.
C9_NoValidityCheck ==
  /\ \A u \in Units :
       /\ (Running /\ BagCardinality(wrappers) < MaxWrappers) =>
            \A p \in PtrsOf(u) : Accepts(u, p)
       /\ ret.op = WrapOp(u) =>
            /\ ret.kind = "object"
            /\ ret.arg \in PtrsOf(u)
            /\ PointerOf(ret.val) = ret.arg
  /\ Running => \A o \in Objects : Readable(o)
  /\ (ret.op \in ScalarOps \cup NestedOps /\ ~Valid(PointerOf(ret.self))) =>
       ret.kind \in {"number", "object", "crash"}
  /\ ret.kind = "throw" => ret.op = "ThrowSDLException"

\* the width of a surface the library has released was read through a
\* wrapper of it, and a number came back
C9_Witness ==
  /\ ret.op = "GetSurfaceWidth"
  /\ PointerOf(ret.self) = "S1"
  /\ "S1" \in freed
  /\ ret.kind = "number"

(* ------------------------------- C10 ----------------------------------- *)

\* C10: each read of format on a Surface wrapper (of a surface the library
\* still holds) returns one more PixelFormat wrapper, of the surface's format
\* pointer at that read; each read of clip_rect returns one more Rect
\* wrapper, of the address of the rectangle embedded in the surface; and the
\* read leaves every wrapper made before as it was.
C10_NestedReadsWrapAfresh ==
  [][/\ (ret'.op = "GetSurfaceFormat" /\ Valid(PointerOf(ret'.self))) =>
          /\ BagIn(ret'.self, wrappers) /\ UnitOf(ret'.self) = "Surface"
          /\ ret'.kind = "object"
          /\ ret'.val = WrapperOf("PixelFormat", mem[PointerOf(ret'.self)].format)
          /\ NewObject(ret'.val)
     /\ (ret'.op = "GetSurfaceRect" /\ Valid(PointerOf(ret'.self))) =>
          /\ BagIn(ret'.self, wrappers) /\ UnitOf(ret'.self) = "Surface"
          /\ ret'.kind = "object"
          /\ ret'.val = WrapperOf("Rect", PointerOf(ret'.self) \o ".clip_rect")
          /\ NewObject(ret'.val)]_vars

\* format was read on a wrapper of S1 before and after the library gave S1
\* the format F2: the heap holds the wrapper of F1 from the first read and
\* the wrapper of F2 the second read has just returned
C10_Witness ==
  /\ ret.op = "GetSurfaceFormat"
  /\ ret.self = WrapperOf("Surface", "S1")
  /\ mem["S1"].format = "F2"
  /\ ret.val = WrapperOf("PixelFormat", "F2")
  /\ wrappers = SetToBag({WrapperOf("Surface", "S1"), WrapperOf("PixelFormat", "F1"),
                          WrapperOf("PixelFormat", "F2")})

====
